---- MODULE Spec2Model ----
(***************************************************************************)
(* cwa-images: the tolerant literal parser (src/src/parser.rs) and the     *)
(* schema-directed object finder, as used by Task::download_list           *)
(* (src/src/main.rs).  Both are pure functions; the state machine draws a  *)
(* source document, applies parse_source to it and then find_objects to    *)
(* the value it returned.                                                  *)
(***************************************************************************)
EXTENDS Integers, Sequences, FiniteSets, TLC

VARIABLES source, pc, result, records

vars == <<source, pc, result, records>>

(***************************************************************************)
(* Bounds of the model.                                                    *)
(***************************************************************************)
MaxStmts == 2
MaxDecls == 2
MaxElems == 3
MaxProps == 3
MaxUnary == 3
MaxDepth == 1

(***************************************************************************)
(* Option<Value>: a value, None, or the call did not return (a panic       *)
(* unwinds through every caller).                                          *)
(***************************************************************************)
None == [kind |-> "None"]
Panic == [kind |-> "Panic"]
NotYet == [kind |-> "NotYet"]

(***************************************************************************)
(* serde_json::Value.  A Number is a finite f64, modelled by an integer.   *)
(* An Object's map is serde_json::Map in its default form, a BTreeMap: a   *)
(* sequence of entries [k, v] kept in ascending key order, keys unique.    *)
(***************************************************************************)
Null == [kind |-> "Null"]
Bool(b) == [kind |-> "Bool", b |-> b]
Number(n) == [kind |-> "Number", n |-> n]
String(s) == [kind |-> "String", s |-> s]
Array(elems) == [kind |-> "Array", elems |-> elems]
Object(map) == [kind |-> "Object", map |-> map]

IsValue(r) == r.kind \notin {"None", "Panic", "NotYet"}

(***************************************************************************)
(* Ord for String (byte order), on the keys the model's documents use.     *)
(***************************************************************************)
KeyOrder == <<"1", "2", "a", "img", "inf", "inner", "null", "text", "true", "z">>

KeyRank(k) == CHOOSE i \in 1..Len(KeyOrder) : KeyOrder[i] = k

\* Map::contains_key
contains_key(map, k) == \E i \in 1..Len(map) : map[i].k = k

\* Map::get, for a key the map holds
get(map, k) == map[CHOOSE i \in 1..Len(map) : map[i].k = k].v

\* a map that keeps the order in which keys were first written (what
\* serde_json's Map is under its preserve_order feature)
insert_in_source_order(map, k, v) ==
    IF contains_key(map, k)
    THEN [i \in 1..Len(map) |-> IF map[i].k = k THEN [k |-> k, v |-> v] ELSE map[i]]
    ELSE Append(map, [k |-> k, v |-> v])

\* an insert that leaves the value of a key the map holds (entry().or_insert)
insert_keeps_first(map, k, v) ==
    IF contains_key(map, k) THEN map
    ELSE LET below == SelectSeq(map, LAMBDA e : KeyRank(e.k) < KeyRank(k))
             above == SelectSeq(map, LAMBDA e : KeyRank(e.k) > KeyRank(k))
         IN  below \o <<[k |-> k, v |-> v]>> \o above

\* Map::insert: replaces the value of a key the map holds, and otherwise
\* places the entry at the key's place in the order.
insert(map, k, v) ==
    IF contains_key(map, k)
    THEN [i \in 1..Len(map) |-> IF map[i].k = k THEN [k |-> k, v |-> v] ELSE map[i]]
    ELSE LET below == SelectSeq(map, LAMBDA e : KeyRank(e.k) < KeyRank(k))
             above == SelectSeq(map, LAMBDA e : KeyRank(e.k) > KeyRank(k))
         IN  below \o <<[k |-> k, v |-> v]>> \o above

(***************************************************************************)
(* f64 of a numeric literal: finite (an integer here) or not (1e999).      *)
(***************************************************************************)
F64(n) == [finite |-> TRUE, n |-> n]
Infinity == [finite |-> FALSE, n |-> 0]

Digits == <<"0", "1", "2", "3", "4", "5", "6", "7", "8", "9">>

RECURSIVE NatToString(_)
NatToString(n) ==
    IF n < 10 THEN Digits[n + 1]
    ELSE NatToString(n \div 10) \o Digits[(n % 10) + 1]

\* f64::to_string of a property key (a key literal carries no sign)
f64_to_string(f) == IF f.finite THEN NatToString(f.n) ELSE "inf"

(***************************************************************************)
(* The syntax tree swc hands over.                                         *)
(***************************************************************************)
LitStr(s) == [kind |-> "Lit", lit |-> [kind |-> "Str", value |-> s]]
LitNum(f) == [kind |-> "Lit", lit |-> [kind |-> "Num", num |-> f]]
LitBool(b) == [kind |-> "Lit", lit |-> [kind |-> "Bool", b |-> b]]
LitNull == [kind |-> "Lit", lit |-> [kind |-> "Null"]]
LitBigInt == [kind |-> "Lit", lit |-> [kind |-> "BigInt"]]
LitRegex == [kind |-> "Lit", lit |-> [kind |-> "Regex"]]
Ident == [kind |-> "Ident"]
Fn == [kind |-> "Fn"]
Arrow == [kind |-> "Arrow"]
Bin == [kind |-> "Bin"]
Call == [kind |-> "Call"]
Unary(op, arg) == [kind |-> "Unary", op |-> op, arg |-> arg]
ArrayLit(elems) == [kind |-> "Array", elems |-> elems]
ObjectLit(props) == [kind |-> "Object", props |-> props]

\* Option<ExprOrSpread>
Hole == [kind |-> "Hole"]
Elem(spread, expr) == [kind |-> "Elem", spread |-> spread, expr |-> expr]

\* PropOrSpread, Prop
SpreadProp(expr) == [kind |-> "Spread", expr |-> expr]
KeyValue(key, val) == [kind |-> "KeyValue", key |-> key, val |-> val]
Shorthand == [kind |-> "Shorthand"]
Method == [kind |-> "Method"]
Getter == [kind |-> "Getter"]

\* PropName
KStr(s) == [kind |-> "Str", value |-> s]
KIdent(s) == [kind |-> "Ident", sym |-> s]
KNum(f) == [kind |-> "Num", num |-> f]
KComputed == [kind |-> "Computed"]
KBigInt == [kind |-> "BigInt"]

\* Stmt, Decl, VarDeclarator
NoInit == [kind |-> "NoInit"]
VarDecl(inits) == [kind |-> "Decl", decl |-> [kind |-> "Var", decls |-> inits]]
FnDecl == [kind |-> "Decl", decl |-> [kind |-> "Fn"]]
ExprStmt == [kind |-> "Expr"]

(***************************************************************************)
(* parser.rs                                                               *)
(***************************************************************************)
ParseError(kind, message) == [kind |-> kind, message |-> message]

\* impl Display for ParseError
fmt(e) == e.kind \o ": " \o e.message

\* serde_json::Number::from_f64(..).unwrap()
from_f64_unwrap(f) == IF f.finite THEN Number(f.n) ELSE Panic

parse_prop_name(key) ==
    CASE key.kind = "Str" -> key.value
      [] key.kind = "Ident" -> key.sym
      [] key.kind = "Num" -> f64_to_string(key.num)
      [] OTHER -> "panic"

\* whether parse_prop_name reaches panic!("unknown key type")
prop_name_panics(key) == key.kind \notin {"Str", "Ident", "Num"}

parse_lit(lit) ==
    CASE lit.kind = "Str" -> String(lit.value)
      [] lit.kind = "Num" -> from_f64_unwrap(lit.num)
      [] lit.kind = "Bool" -> Bool(lit.b)
      [] lit.kind = "Null" -> Null
      [] OTHER -> None

RECURSIVE parse_expr(_)

\* an object loop that keeps the key of a value that does not lower, with
\* a null in its place
RECURSIVE object_loop_placeholder(_, _, _)
object_loop_placeholder(props, i, map) ==
    IF i > Len(props) THEN Object(map)
    ELSE LET value == parse_expr(props[i].val)
         IN  CASE value = Panic -> Panic
               [] prop_name_panics(props[i].key) -> Panic
               [] value = None ->
                    object_loop_placeholder(props, i + 1,
                        insert(map, parse_prop_name(props[i].key), Null))
               [] OTHER ->
                    object_loop_placeholder(props, i + 1,
                        insert(map, parse_prop_name(props[i].key), value))

\* the loop over props of Expr::Object, from property i on
RECURSIVE object_loop(_, _, _)
object_loop(props, i, map) ==
    IF i > Len(props) THEN Object(map)
    ELSE LET value == parse_expr(props[i].val)
         IN  CASE value = Panic -> Panic
               [] value = None -> object_loop(props, i + 1, map)
               [] OTHER ->
                    IF prop_name_panics(props[i].key) THEN Panic
                    ELSE object_loop(props, i + 1,
                                     insert(map, parse_prop_name(props[i].key), value))

\* the loop over elems of Expr::Array, from element i on
RECURSIVE array_loop(_, _, _)
array_loop(elems, i, array) ==
    IF i > Len(elems) THEN Array(array)
    ELSE LET value == parse_expr(elems[i].expr)
         IN  CASE value = Panic -> Panic
               [] value = None -> array_loop(elems, i + 1, array)
               [] OTHER -> array_loop(elems, i + 1, Append(array, value))

\* a unary + that passes any lowered operand through
parse_unary_plus_any(unary) ==
    CASE unary.op = "Minus" ->
            LET arg == parse_expr(unary.arg)
            IN  CASE arg = Panic -> Panic
                  [] arg.kind = "Number" -> Number(-arg.n)
                  [] OTHER -> None
      [] unary.op = "Plus" -> parse_expr(unary.arg)
      [] OTHER -> None

parse_unary(unary) ==
    CASE unary.op = "Minus" ->
            LET arg == parse_expr(unary.arg)
            IN  CASE arg = Panic -> Panic
                  [] arg.kind = "Number" -> Number(-arg.n)
                  [] OTHER -> None
      [] unary.op = "Plus" ->
            LET arg == parse_expr(unary.arg)
            IN  CASE arg = Panic -> Panic
                  [] arg.kind = "Number" -> arg
                  [] OTHER -> None
      [] OTHER -> None

\* the two filter_maps of Expr::Object: plain key/value properties only
key_value_props(props) == SelectSeq(props, LAMBDA p : p.kind = "KeyValue")

\* the filter_map of Expr::Array: the slots that are present
present_elems(elems) == SelectSeq(elems, LAMBDA e : e.kind # "Hole")

parse_expr(expr) ==
    CASE expr.kind = "Object" -> object_loop(key_value_props(expr.props), 1, <<>>)
      [] expr.kind = "Array" -> array_loop(present_elems(expr.elems), 1, <<>>)
      [] expr.kind = "Lit" -> parse_lit(expr.lit)
      [] expr.kind = "Unary" -> parse_unary(expr)
      [] OTHER -> None

\* Option<Vec<Box<Expr>>>: Some(the initializers of a var declaration), None
\* for any other Decl
parse_decl(decl) ==
    IF decl.kind = "Var"
    THEN [some |-> TRUE, inits |-> SelectSeq(decl.decls, LAMBDA d : d.kind # "NoInit")]
    ELSE [some |-> FALSE, inits |-> <<>>]

\* a collapse without the arm for one value
collapse_always_array(values) == IF Len(values) = 0 THEN None ELSE Array(values)

\* match len { 0 => None, 1 => pop, _ => Some(Value::Array(..)) }
collapse(values) ==
    CASE Len(values) = 0 -> None
      [] Len(values) = 1 -> values[1]
      [] OTHER -> Array(values)

\* the loop over inits in parse_stmt, from i on: the values pushed, or a panic
RECURSIVE inits_loop(_, _, _)
inits_loop(inits, i, values) ==
    IF i > Len(inits) THEN [panic |-> FALSE, values |-> values]
    ELSE LET value == parse_expr(inits[i])
         IN  CASE value = Panic -> [panic |-> TRUE, values |-> <<>>]
               [] value = None -> inits_loop(inits, i + 1, values)
               [] OTHER -> inits_loop(inits, i + 1, Append(values, value))

parse_stmt(stmt) ==
    IF stmt.kind = "Decl"
    THEN LET decl == parse_decl(stmt.decl)
         IN  IF ~decl.some THEN None
             ELSE LET got == inits_loop(decl.inits, 1, <<>>)
                  IN  IF got.panic THEN Panic ELSE collapse(got.values)
    ELSE None

\* the loop over script.body in parse_script, from i on
RECURSIVE body_loop(_, _, _)
body_loop(body, i, array) ==
    IF i > Len(body) THEN [panic |-> FALSE, values |-> array]
    ELSE LET value == parse_stmt(body[i])
         IN  CASE value = Panic -> [panic |-> TRUE, values |-> <<>>]
               [] value = None -> body_loop(body, i + 1, array)
               [] OTHER -> body_loop(body, i + 1, Append(array, value))

parse_script(script) ==
    LET got == body_loop(script, 1, <<>>)
    IN  IF got.panic THEN Panic ELSE collapse(got.values)

Ok(value) == [tag |-> "Ok", ok |-> value]
Err(e) == [tag |-> "Err", err |-> e]

\* a parse_source that answers null for a script with no value
parse_source_null_on_empty(src) ==
    IF ~src.syntax_ok THEN Err(ParseError("parse error", src.diag))
    ELSE LET value == parse_script(src.body)
         IN  CASE value = Panic -> Panic
               [] value = None -> Ok(Null)
               [] OTHER -> Ok(value)

parse_source(src) ==
    IF ~src.syntax_ok THEN Err(ParseError("parse error", src.diag))
    ELSE LET value == parse_script(src.body)
         IN  CASE value = Panic -> Panic
               [] value = None ->
                    Err(ParseError("parse_script error", "not find any value in script"))
               [] OTHER -> Ok(value)

(***************************************************************************)
(* find_objects::<Img>                                                     *)
(***************************************************************************)
\* impl CondKeys for Img
keys == <<"img", "text">>

\* serde_json::from_value::<Img>: both fields are Strings (other keys are
\* ignored); Ok carries the record
from_value_ok(map) ==
    /\ contains_key(map, "img") /\ get(map, "img").kind = "String"
    /\ contains_key(map, "text") /\ get(map, "text").kind = "String"

Img(map) == [img |-> get(map, "img").s, text |-> get(map, "text").s]

RECURSIVE find_objects(_)

\* array.extend(find_objects(..)) over a sequence of values, from i on
RECURSIVE extend_all(_, _, _)
extend_all(vals, i, array) ==
    IF i > Len(vals) THEN array
    ELSE extend_all(vals, i + 1, array \o find_objects(vals[i]))

map_values(map) == [i \in 1..Len(map) |-> map[i].v]

\* a search that does not return at a match, and goes on into it
RECURSIVE find_objects_no_return(_)

RECURSIVE extend_all_no_return(_, _, _)
extend_all_no_return(vals, i, array) ==
    IF i > Len(vals) THEN array
    ELSE extend_all_no_return(vals, i + 1, array \o find_objects_no_return(vals[i]))

find_objects_no_return(value) ==
    CASE value.kind = "Object" ->
            LET matched == \A i \in 1..Len(keys) : contains_key(value.map, keys[i])
                found == IF matched /\ from_value_ok(value.map)
                         THEN <<Img(value.map)>> ELSE <<>>
            IN  extend_all_no_return(map_values(value.map), 1, found)
      [] value.kind = "Array" -> extend_all_no_return(value.elems, 1, <<>>)
      [] OTHER -> <<>>

\* a search that gives up on an Object that has the keys and does not
\* deserialize
RECURSIVE find_objects_skip_failed(_)

RECURSIVE extend_all_skip_failed(_, _, _)
extend_all_skip_failed(vals, i, array) ==
    IF i > Len(vals) THEN array
    ELSE extend_all_skip_failed(vals, i + 1, array \o find_objects_skip_failed(vals[i]))

find_objects_skip_failed(value) ==
    CASE value.kind = "Object" ->
            LET matched == \A i \in 1..Len(keys) : contains_key(value.map, keys[i])
            IN  IF matched
                THEN IF from_value_ok(value.map) THEN <<Img(value.map)>> ELSE <<>>
                ELSE extend_all_skip_failed(map_values(value.map), 1, <<>>)
      [] value.kind = "Array" -> extend_all_skip_failed(value.elems, 1, <<>>)
      [] OTHER -> <<>>

find_objects(value) ==
    CASE value.kind = "Object" ->
            LET matched == \A i \in 1..Len(keys) : contains_key(value.map, keys[i])
            IN  IF matched /\ from_value_ok(value.map)
                THEN <<Img(value.map)>>
                ELSE extend_all(map_values(value.map), 1, <<>>)
      [] value.kind = "Array" -> extend_all(value.elems, 1, <<>>)
      [] OTHER -> <<>>

(***************************************************************************)
(* The documents the model draws.  Sequences of length 0..n over a set.    *)
(***************************************************************************)
SeqsUpTo(S, n) == UNION {[1..m -> S] : m \in 0..n}

Script(body) == [syntax_ok |-> TRUE, diag |-> "", body |-> body]
SyntaxError(diag) == [syntax_ok |-> FALSE, diag |-> diag, body |-> <<>>]

\* var data = expr
VarData(expr) == Script(<<VarDecl(<<expr>>)>>)

\* the parser's diagnostics of a source it cannot parse
\* (their text is the parser's own: the model lets one of them read like
\* parse_source's own message)
Diags ==
    {"Unterminated string constant", "Unexpected token",
     "not find any value in script"}

\* operands of the unary chains: every kind of expression
Operands ==
    {LitNum(F64(5)), LitNum(F64(0)), LitNum(Infinity), LitStr("x"), LitBool(TRUE),
     LitNull, LitBigInt, LitRegex, Ident, Fn, Arrow, Bin, Call,
     ArrayLit(<<>>), ArrayLit(<<Elem(FALSE, LitNum(F64(1)))>>),
     ObjectLit(<<>>), ObjectLit(<<KeyValue(KIdent("a"), LitNum(F64(1)))>>)}

UnaryOps == {"Minus", "Plus", "Bang"}

RECURSIVE UnaryChains(_)
UnaryChains(d) ==
    IF d = 0 THEN Operands
    ELSE LET inner == UnaryChains(d - 1)
         IN  inner \cup {Unary(op, e) : op \in UnaryOps, e \in inner}

\* array literals: holes, spreads and plain elements
ElemExprs ==
    {LitNum(F64(1)), LitNum(F64(2)), LitStr("a"), Ident,
     ArrayLit(<<Elem(FALSE, LitNum(F64(1))), Elem(FALSE, LitNum(F64(2)))>>)}

Elems == {Hole} \cup {Elem(sp, e) : sp \in BOOLEAN, e \in ElemExprs}

ArrayLits == {ArrayLit(es) : es \in SeqsUpTo(Elems, MaxElems)}

\* object literals: spreads, methods and key/value properties
PropKeys == {KStr("1"), KNum(F64(1)), KIdent("a"), KComputed}
PropVals == {LitNum(F64(1)), LitNum(F64(2)), Fn}

Props ==
    {SpreadProp(Ident), Method} \cup {KeyValue(k, v) : k \in PropKeys, v \in PropVals}

ObjectLits == {ObjectLit(ps) : ps \in SeqsUpTo(Props, MaxProps)}

\* one property of every kind, under every kind of key
AllKeys ==
    {KStr("a"), KStr("1"), KIdent("a"), KIdent("true"), KIdent("null"),
     KNum(F64(1)), KNum(F64(2)), KNum(Infinity), KComputed, KBigInt}

AllVals ==
    {LitNum(F64(1)), LitNum(Infinity), LitStr("x"), LitBool(FALSE), LitNull, LitBigInt,
     LitRegex, Ident, Fn, Arrow, Bin, Call, Unary("Minus", LitNum(F64(1)))}

SingleProps ==
    {ObjectLit(<<p>>) :
        p \in {SpreadProp(Ident), SpreadProp(ObjectLit(<<>>)), Shorthand, Method, Getter}
              \cup {KeyValue(k, v) : k \in AllKeys, v \in AllVals}}

\* scripts of several statements and declarators
Inits == {NoInit, LitNum(F64(1)), LitNum(F64(2))}

Stmts ==
    {ExprStmt, FnDecl, VarDecl(<<Ident>>)}
        \cup {VarDecl(ds) : ds \in SeqsUpTo(Inits, MaxDecls) \ {<<>>}}

Scripts == {Script(body) : body \in SeqsUpTo(Stmts, MaxStmts)}

\* image lists: objects that match the Img schema, that lack a key, that
\* hold a key of the wrong type, and their nestings
ImgObj(img, text) ==
    ObjectLit(<<KeyValue(KStr("img"), img), KeyValue(KStr("text"), text)>>)

Leaves ==
    {ImgObj(LitStr("a"), LitStr("t")), ImgObj(LitStr("b"), LitStr("u")),
     ImgObj(LitNum(F64(1)), LitStr("t")),
     ObjectLit(<<KeyValue(KStr("img"), LitStr("a"))>>),
     LitStr("a")}

\* the values of a set nested once: in an array, under a key, in an object
\* that matches, in one that fails to deserialize, in one that lacks a key
Nest(xs) ==
    {ArrayLit(<<Elem(FALSE, x)>>) : x \in xs}
        \cup {ObjectLit(<<KeyValue(KIdent("a"), x)>>) : x \in xs}
        \cup {ObjectLit(<<KeyValue(KIdent("inner"), x), KeyValue(KStr("img"), LitStr("o")),
                          KeyValue(KStr("text"), LitStr("p"))>>) : x \in xs}
        \cup {ObjectLit(<<KeyValue(KStr("img"), LitNum(F64(1))),
                          KeyValue(KStr("text"), LitStr("p")),
                          KeyValue(KIdent("inner"), x)>>) : x \in xs}
        \cup {ObjectLit(<<KeyValue(KStr("img"), LitStr("o")),
                          KeyValue(KIdent("inner"), x)>>) : x \in xs}

RECURSIVE Nested(_)
Nested(d) ==
    IF d = 0 THEN Leaves
    ELSE LET inner == Nested(d - 1)
         IN  inner \cup Nest(inner)

\* two siblings: in an array, and under keys written out of key order
Siblings(xs) ==
    {ArrayLit(<<Elem(FALSE, x), Elem(FALSE, y)>>) : x \in xs, y \in xs}
        \cup {ObjectLit(<<KeyValue(KIdent("z"), x), KeyValue(KIdent("a"), y)>>) :
                 x \in xs, y \in xs}

ImgLists ==
    LET inner == Nested(MaxDepth)
    IN  inner \cup Siblings(inner)

(***************************************************************************)
(* The state machine: Task::download_list parses the source it fetched     *)
(* and, when a value came back, searches it.                               *)
(***************************************************************************)
Init ==
    /\ \/ source \in {SyntaxError(d) : d \in Diags}
       \/ source \in Scripts
       \/ source \in {VarData(e) : e \in UnaryChains(MaxUnary)}
       \/ source \in {VarData(e) : e \in ArrayLits}
       \/ source \in {VarData(e) : e \in ObjectLits}
       \/ source \in {VarData(e) : e \in SingleProps}
       \/ source \in {VarData(e) : e \in ImgLists}
    /\ pc = "start"
    /\ result = NotYet
    /\ records = <<>>

\* let object = parse_source(&source)?: the call returns a Result, or panics
ParseSource ==
    /\ pc = "start"
    /\ result' = parse_source(source)
    /\ pc' = IF result' = Panic THEN "panicked" ELSE "parsed"
    /\ UNCHANGED <<source, records>>

\* Ok(find_objects(object))
FindObjects ==
    /\ pc = "parsed"
    /\ result.tag = "Ok"
    /\ records' = find_objects(result.ok)
    /\ pc' = "found"
    /\ UNCHANGED <<source, result>>

\* the ? operator: an Err of parse_source is the Err of download_list
ReturnErr ==
    /\ pc = "parsed"
    /\ result.tag = "Err"
    /\ pc' = "failed"
    /\ UNCHANGED <<source, result, records>>

Next == ParseSource \/ FindObjects \/ ReturnErr

Spec == Init /\ [][Next]_vars

(***************************************************************************)
(* What the properties speak of.                                           *)
(***************************************************************************)
\* parse_source returned a Result (it did not panic)
Returned == pc \in {"parsed", "found", "failed"}

\* the Option<Value> behind the Result: the value, or None for "not find
\* any value in script"
Lowered == IF result.tag = "Ok" THEN result.ok ELSE None

\* the source is "var data = <expr>", and TheExpr that expression
IsVarData ==
    /\ source.syntax_ok
    /\ Len(source.body) = 1
    /\ source.body[1].kind = "Decl"
    /\ source.body[1].decl.kind = "Var"
    /\ Len(source.body[1].decl.decls) = 1
    /\ source.body[1].decl.decls[1].kind # "NoInit"

TheExpr == source.body[1].decl.decls[1]

\* the initializers of a statement in source order: those of a variable
\* declaration's declarators that have one, none for any other statement
StmtInits(stmt) ==
    IF stmt.kind = "Decl" /\ stmt.decl.kind = "Var"
    THEN SelectSeq(stmt.decl.decls, LAMBDA d : d.kind # "NoInit")
    ELSE <<>>

\* the values of the expressions of a sequence that lower, in order
LoweredOf(exprs) ==
    LET all == [i \in 1..Len(exprs) |-> parse_expr(exprs[i])]
    IN  SelectSeq(all, IsValue)

RECURSIVE Flatten(_)
Flatten(seqs) == IF seqs = <<>> THEN <<>> ELSE Head(seqs) \o Flatten(Tail(seqs))

\* zero: absent; one: the value; more: an Array of them
Collapsed(values) ==
    IF Len(values) = 0 THEN None
    ELSE IF Len(values) = 1 THEN values[1] ELSE Array(values)

\* S of the claim: every lowered initializer of the script, flat
FlatLowered(body) == Flatten([i \in 1..Len(body) |-> LoweredOf(StmtInits(body[i]))])

\* one result per statement: its own lowered initializers, collapsed
PerStmt(body) ==
    SelectSeq([i \in 1..Len(body) |-> Collapsed(LoweredOf(StmtInits(body[i])))], IsValue)

(***************************************************************************)
(* C1                                                                      *)
(***************************************************************************)
\* C1, as claimed: the result of lowering a script is the flat sequence S
\* of the lowered initializers of all declarators of all variable
\* declarations, collapsed: absent when S is empty, the value when |S| = 1,
\* one Array of S otherwise.
C1_FlatCollapse ==
    (Returned /\ source.syntax_ok) => Lowered = Collapsed(FlatLowered(source.body))

\* C1, amended: each variable declaration collapses the lowered
\* initializers of its own declarators (absent, the value, or an Array of
\* them), and the script collapses the statements' results the same way:
\* "var a = 1, b = 2; var c = 3;" gives [[1, 2], 3].
C1_PerStatementCollapse ==
    (Returned /\ source.syntax_ok) => Lowered = Collapsed(PerStmt(source.body))

\* C1, witness: a script of two declarations, the first with two lowered
\* declarators, has been lowered to a nested Array.
C1_Witness ==
    /\ Returned /\ source.syntax_ok
    /\ Len(source.body) = 2
    /\ Len(LoweredOf(StmtInits(source.body[1]))) = 2
    /\ Len(LoweredOf(StmtInits(source.body[2]))) = 1
    /\ result.tag = "Ok"
    /\ result.ok.kind = "Array"
    /\ Len(result.ok.elems) = 2
    /\ result.ok.elems[1].kind = "Array"

(***************************************************************************)
(* C2                                                                      *)
(***************************************************************************)
\* the slots of an array literal the claim keeps: present, not a spread
KeptElems(elems) == SelectSeq(elems, LAMBDA e : e.kind = "Elem" /\ ~e.spread)

\* C2, as claimed: an array literal lowers to the Array of the lowered
\* values of its slots that are present, are no spread and lower, in source
\* order; a spread contributes nothing, whatever its argument.
C2_SpreadDropped ==
    (Returned /\ IsVarData /\ TheExpr.kind = "Array") =>
        LET kept == KeptElems(TheExpr.elems)
        IN  Lowered = Array(LoweredOf([i \in 1..Len(kept) |-> kept[i].expr]))

(***************************************************************************)
(* C3                                                                      *)
(***************************************************************************)
\* the key of a property as the claims normalize it
NormalKey(key) ==
    CASE key.kind = "Str" -> key.value
      [] key.kind = "Ident" -> key.sym
      [] key.kind = "Num" /\ key.num.finite -> Digits[key.num.n + 1]
      [] OTHER -> "inf"

PlainProps(props) == SelectSeq(props, LAMBDA p : p.kind = "KeyValue")

\* the last of the plain properties with the normalized key of property i
IsLastOfKey(kv, i) ==
    \A j \in (i + 1)..Len(kv) : NormalKey(kv[j].key) # NormalKey(kv[i].key)

\* C3, as claimed: of two plain properties with equal normalized keys and
\* different values, the lowered Object holds the later one's value under
\* that key.
C3_LaterWins ==
    (Returned /\ IsVarData /\ TheExpr.kind = "Object") =>
        LET kv == PlainProps(TheExpr.props)
        IN  \A i, j \in 1..Len(kv) :
                (/\ i < j
                 /\ NormalKey(kv[i].key) = NormalKey(kv[j].key)
                 /\ kv[i].val # kv[j].val
                 /\ IsLastOfKey(kv, j)) =>
                    /\ contains_key(Lowered.map, NormalKey(kv[j].key))
                    /\ get(Lowered.map, NormalKey(kv[j].key)) = parse_expr(kv[j].val)

\* the plain properties with normalized key k whose value lowers
KeptOfKey(kv, k) ==
    {i \in 1..Len(kv) : NormalKey(kv[i].key) = k /\ IsValue(parse_expr(kv[i].val))}

Max(S) == CHOOSE m \in S : \A n \in S : n <= m

\* C3, amended: under each normalized key the lowered Object holds the
\* value of the last property with that key whose value lowers; a later
\* property whose value does not lower overwrites nothing, and the key is
\* absent when no property with it lowers.
C3_LastLoweredWins ==
    (Returned /\ IsVarData /\ TheExpr.kind = "Object") =>
        LET kv == PlainProps(TheExpr.props)
        IN  \A i \in 1..Len(kv) :
                LET k == NormalKey(kv[i].key)
                    kept == KeptOfKey(kv, k)
                IN  IF kept = {} THEN ~contains_key(Lowered.map, k)
                    ELSE /\ contains_key(Lowered.map, k)
                         /\ get(Lowered.map, k) = parse_expr(kv[Max(kept)].val)

\* C3, witness: a numeric key 1 and a string key "1" with two different
\* values that lower; the Object lowered from them holds one entry, the
\* later value.
C3_Witness ==
    /\ Returned /\ IsVarData /\ TheExpr.kind = "Object"
    /\ LET kv == PlainProps(TheExpr.props)
       IN  /\ Len(kv) = 2
           /\ kv[1].key.kind = "Num" /\ kv[2].key.kind = "Str"
           /\ NormalKey(kv[1].key) = NormalKey(kv[2].key)
           /\ IsValue(parse_expr(kv[1].val)) /\ IsValue(parse_expr(kv[2].val))
           /\ parse_expr(kv[1].val) # parse_expr(kv[2].val)
           /\ Lowered = Object(<<[k |-> "1", v |-> parse_expr(kv[2].val)]>>)

(***************************************************************************)
(* C4                                                                      *)
(***************************************************************************)
\* C4, as claimed: lowering never aborts; every unsupported construct only
\* makes its own slot absent.
C4_NeverAborts == pc # "panicked"

(***************************************************************************)
(* The value tree, by paths.  A step into an Array is an index, a step     *)
(* into an Object is the rank of a key in key order.                       *)
(***************************************************************************)
Steps(v) ==
    CASE v.kind = "Array" -> 1..Len(v.elems)
      [] v.kind = "Object" -> {KeyRank(v.map[i].k) : i \in 1..Len(v.map)}
      [] OTHER -> {}

Child(v, step) == IF v.kind = "Array" THEN v.elems[step] ELSE get(v.map, KeyOrder[step])

RECURSIVE Paths(_)
Paths(v) == {<<>>} \cup UNION {{<<st>> \o p : p \in Paths(Child(v, st))} : st \in Steps(v)}

RECURSIVE NodeAt(_, _)
NodeAt(v, p) == IF p = <<>> THEN v ELSE NodeAt(Child(v, Head(p)), Tail(p))

\* an Object with every required key that deserializes into an Img
Matches(v) ==
    /\ v.kind = "Object"
    /\ \A i \in 1..Len(keys) : contains_key(v.map, keys[i])
    /\ from_value_ok(v.map)

\* an Object with every required key that does not deserialize
FailsToDeserialize(v) ==
    /\ v.kind = "Object"
    /\ \A i \in 1..Len(keys) : contains_key(v.map, keys[i])
    /\ ~from_value_ok(v.map)

ProperPrefixes(p) == {SubSeq(p, 1, n) : n \in 0..(Len(p) - 1)}

\* the paths of the matching Objects none of whose proper ancestors matches
Unpruned(v) ==
    {p \in Paths(v) :
        /\ Matches(NodeAt(v, p))
        /\ \A q \in ProperPrefixes(p) : ~Matches(NodeAt(v, q))}

Count(seq, x) == Cardinality({i \in 1..Len(seq) : seq[i] = x})

Range(seq) == {seq[i] : i \in 1..Len(seq)}

\* q comes before p in a depth-first, pre-order walk that takes array
\* elements by index and object properties by key
Before(q, p) ==
    \/ q \in ProperPrefixes(p)
    \/ \E i \in 1..Len(q) :
          /\ i <= Len(p)
          /\ q[i] < p[i]
          /\ \A j \in 1..(i - 1) : q[j] = p[j]

(***************************************************************************)
(* C5                                                                      *)
(***************************************************************************)
\* C5: an Object that has every required key and deserializes yields exactly
\* one record, its own, and none for any value nested inside it: for the
\* value searched and for every Object within it.
C5_MatchedObjectIsLeaf ==
    pc = "found" =>
        /\ Matches(result.ok) => records = <<Img(result.ok.map)>>
        /\ \A p \in Paths(result.ok) :
              Matches(NodeAt(result.ok, p)) =>
                  find_objects(NodeAt(result.ok, p)) = <<Img(NodeAt(result.ok, p).map)>>

\* C5, witness: the value searched matches and holds a nested Object that
\* matches too, and the one record found is the outer one.
C5_Witness ==
    /\ pc = "found"
    /\ Matches(result.ok)
    /\ \E p \in Paths(result.ok) : p # <<>> /\ Matches(NodeAt(result.ok, p))
    /\ records = <<Img(result.ok.map)>>

(***************************************************************************)
(* C6                                                                      *)
(***************************************************************************)
\* C6: the records found are those of the matching Objects with no matching
\* proper ancestor, one each: also in sibling branches, in arrays, under an
\* ancestor that lacks a key and under one that failed to deserialize.
C6_EveryUnprunedMatch ==
    pc = "found" =>
        LET U == Unpruned(result.ok)
            expected == {Img(NodeAt(result.ok, p).map) : p \in U}
        IN  /\ Len(records) = Cardinality(U)
            /\ \A r \in expected \cup Range(records) :
                  Count(records, r) =
                      Cardinality({p \in U : Img(NodeAt(result.ok, p).map) = r})

\* C6, witness: two records were found in sibling branches, one of them
\* under an ancestor that has every required key and failed to deserialize.
C6_Witness ==
    /\ pc = "found"
    /\ Len(records) = 2
    /\ \E p \in Unpruned(result.ok) :
          \E q \in ProperPrefixes(p) : FailsToDeserialize(NodeAt(result.ok, q))
    /\ \E p, q \in Unpruned(result.ok) : p # q /\ p[1] # q[1]

(***************************************************************************)
(* C7                                                                      *)
(***************************************************************************)
\* the value of an expression with every Object's properties in the order
\* the source wrote them (for expressions that lower without a panic)
RECURSIVE SourceOrderValue(_)

RECURSIVE SourceOrderProps(_, _, _)
SourceOrderProps(props, i, map) ==
    IF i > Len(props) THEN Object(map)
    ELSE LET value == SourceOrderValue(props[i].val)
         IN  IF value = None THEN SourceOrderProps(props, i + 1, map)
             ELSE SourceOrderProps(props, i + 1,
                                   insert_in_source_order(map, NormalKey(props[i].key), value))

SourceOrderValue(expr) ==
    CASE expr.kind = "Object" -> SourceOrderProps(PlainProps(expr.props), 1, <<>>)
      [] expr.kind = "Array" ->
            LET present == SelectSeq(expr.elems, LAMBDA e : e.kind # "Hole")
                all == [i \in 1..Len(present) |-> SourceOrderValue(present[i].expr)]
            IN  Array(SelectSeq(all, IsValue))
      [] OTHER -> parse_expr(expr)

\* the records of a value in pre-order, array elements by index and object
\* properties in the order of the value's own map
RECURSIVE PreOrder(_)
PreOrder(v) ==
    IF Matches(v) THEN <<Img(v.map)>>
    ELSE IF v.kind = "Array"
         THEN Flatten([i \in 1..Len(v.elems) |-> PreOrder(v.elems[i])])
         ELSE IF v.kind = "Object"
              THEN Flatten([i \in 1..Len(v.map) |-> PreOrder(v.map[i].v)])
              ELSE <<>>

HasLoweredInit(body) ==
    \E i \in 1..Len(body) : LoweredOf(StmtInits(body[i])) # <<>>

\* what a caller sees of a Result: the variant, and an error's text
Outcome(r) ==
    IF r.tag = "Ok" THEN "value"
    ELSE IF fmt(r.err) = "parse_script error: not find any value in script"
         THEN "nothing found"
         ELSE "failure"

\* C8: whenever parse_source returns, a source the parser rejects gives an
\* error with the parser's diagnostic and no value; a source that parses
\* and has no initializer that lowers gives the "nothing found" error; any
\* other source gives its lowered value; and the three can be told apart.
C8_ThreeOutcomes ==
    Returned =>
        /\ ~source.syntax_ok <=> Outcome(result) = "failure"
        /\ (source.syntax_ok /\ ~HasLoweredInit(source.body))
              <=> Outcome(result) = "nothing found"
        /\ (source.syntax_ok /\ HasLoweredInit(source.body))
              <=> Outcome(result) = "value"
        /\ Outcome(result) = "failure" =>
              /\ result.err.message = source.diag
              /\ records = <<>> /\ pc # "found"
        /\ Outcome(result) = "value" => IsValue(result.ok)

\* C8, witness: a source that parses, with a variable declaration whose
\* initializer does not lower, has returned "nothing found".
C8_Witness ==
    /\ pc = "failed"
    /\ source.syntax_ok
    /\ \E i \in 1..Len(source.body) : StmtInits(source.body[i]) # <<>>
    /\ Outcome(result) = "nothing found"

(***************************************************************************)
(* C9                                                                      *)
(***************************************************************************)
\* whether string k is the key the claim gives a property name: the text of
\* a quoted key, the spelling of an identifier, the decimal string of a number
IsKeyOf(k, key) ==
    CASE key.kind = "Str" -> k = key.value
      [] key.kind = "Ident" -> k = key.sym
      [] key.kind = "Num" /\ key.num.finite -> k = Digits[key.num.n + 1]
      [] OTHER -> k = NormalKey(key)

Without(seq, i) == SubSeq(seq, 1, i - 1) \o SubSeq(seq, i + 1, Len(seq))

RECURSIVE IsSignedNumber(_)
IsSignedNumber(e) ==
    \/ e.kind = "Lit" /\ e.lit.kind = "Num" /\ e.lit.num.finite
    \/ e.kind = "Unary" /\ e.op \in {"Minus", "Plus"} /\ IsSignedNumber(e.arg)

RECURSIVE SignedNumber(_)
SignedNumber(e) ==
    IF e.kind = "Lit" THEN e.lit.num.n
    ELSE IF e.op = "Minus" THEN -SignedNumber(e.arg) ELSE SignedNumber(e.arg)

====
